---- MODULE Spec2Model ----
(***************************************************************************)
(* Model of the predicates package (src/src/predicates/__init__.py):       *)
(* callables wrapped as Predicate objects, composed into trees with the    *)
(* operators & | - ~ ^ or the composite constructors, evaluated on items   *)
(* and used to filter iterables lazily.                                    *)
(***************************************************************************)
EXTENDS Integers, Sequences, FiniteSets, TLC

\* ------------------------------------------------------------------ bounds
MaxItem == 2        \* items are the integers 0..MaxItem
MaxRules == 3       \* longest *rules tuple handed to a composite constructor
MaxNodes == 6       \* largest predicate tree (callables and predicates)
MaxFiltering == 3   \* largest predicate tree that filtered is called on
MaxLen == 3         \* longest list handed to filtered
MaxConsumed == 5    \* cap on the elements pulled from an endless iterable

Items == 0..MaxItem

\* ----------------------------------------------------------- Python values
\* What a rule can hand back: booleans and the other "truthy or falsy"
\* values.  TypeError stands for the exception sum() raises on a non-number.
PyBool(b) == [tag |-> "bool", n |-> IF b THEN 1 ELSE 0]
PyTrue == PyBool(TRUE)
PyFalse == PyBool(FALSE)
PyInt(k) == [tag |-> "int", n |-> k]
PyStr(len) == [tag |-> "str", n |-> len]
PyNone == [tag |-> "None", n |-> 0]
TypeError == [tag |-> "TypeError", n |-> 0]

Raised(v) == v.tag = "TypeError"
IsNumber(v) == v.tag \in {"bool", "int"}

\* bool(v): the truth value Python gives a value (an exception has none).
Truthy(v) ==
    CASE v.tag \in {"bool", "int"} -> v.n # 0
      [] v.tag = "str" -> v.n > 0
      [] OTHER -> FALSE

\* not v
PyNot(v) == PyBool(~Truthy(v))

\* ---------------------------------------------------------------- callables
\* A callable is a tree: a plain function at the leaves, Predicate objects
\* above them.  The constructors make the predicates a behaviour starts from;
\* the operator methods nest them.
Function(name) == [kind |-> "function", fn |-> name, rules |-> <<>>]

always_true(item) == PyTrue

always_false(item) == PyFalse

is_even(item) == PyBool(item % 2 = 0)

\* Rules that answer with a truthy or falsy value that is not a boolean.
remainder(item) == PyInt(item % 3)

\* table.get for table = {1: "", 2: "a"}: "" or "a", None for a missing key.
lookup(item) == IF item \in {1, 2} THEN PyStr(item - 1) ELSE PyNone

RuleNames == {"is_even", "remainder", "lookup"}

Apply(name, item) ==
    CASE name = "always_true" -> always_true(item)
      [] name = "always_false" -> always_false(item)
      [] name = "is_even" -> is_even(item)
      [] name = "remainder" -> remainder(item)
      [] name = "lookup" -> lookup(item)

\* Constructors (__init__ of each class).
Predicate(rule) == [kind |-> "Predicate", fn |-> "", rules |-> <<rule>>]

PredicateIntersection(rules) ==
    [kind |-> "PredicateIntersection", fn |-> "", rules |-> rules]

PredicateUnion(rules) == [kind |-> "PredicateUnion", fn |-> "", rules |-> rules]

ExclusivePredicateUnion(rules) ==
    [kind |-> "ExclusivePredicateUnion", fn |-> "", rules |-> rules]

PredicateDifference(a, b) ==
    [kind |-> "PredicateDifference", fn |-> "", rules |-> <<a, b>>]

predicate(rule) == Predicate(rule)

\* Operator methods of Predicate.
__and__(self, other) == PredicateIntersection(<<self, other>>)

__or__(self, other) == PredicateUnion(<<self, other>>)

__sub__(self, other) == PredicateDifference(self, other)

\* Variant: built on always_false.
invert_always_false(self) == PredicateDifference(Function("always_false"), self)

__invert__(self) == PredicateDifference(Function("always_true"), self)

\* Variant: ^ builds a PredicateUnion.
xor_as_union(self, other) == PredicateUnion(<<self, other>>)

__xor__(self, other) == ExclusivePredicateUnion(<<self, other>>)

\* --------------------------------------------------------------- evaluation
\* item_passes gives [val, inv]: the value returned (or TypeError) and the
\* indices of the predicate's own rules in the order they were invoked.
RECURSIVE item_passes(_, _)

\* self(item)
__call__(self, item) == item_passes(self, item)

\* rule(item) for any callable.
Invoke(rule, item) ==
    IF rule.kind = "function" THEN Apply(rule.fn, item) ELSE __call__(rule, item).val

\* all(rule(item) for rule in rules): stops at the first falsy result.
RECURSIVE all_(_, _, _, _)
all_(rules, item, i, inv) ==
    IF i > Len(rules) THEN [val |-> PyTrue, inv |-> inv]
    ELSE LET v == Invoke(rules[i], item)
             seen == Append(inv, i)
         IN  IF Raised(v) THEN [val |-> v, inv |-> seen]
             ELSE IF ~Truthy(v) THEN [val |-> PyFalse, inv |-> seen]
             ELSE all_(rules, item, i + 1, seen)

\* any(rule(item) for rule in rules): stops at the first truthy result.
RECURSIVE any_(_, _, _, _)
any_(rules, item, i, inv) ==
    IF i > Len(rules) THEN [val |-> PyFalse, inv |-> inv]
    ELSE LET v == Invoke(rules[i], item)
             seen == Append(inv, i)
         IN  IF Raised(v) THEN [val |-> v, inv |-> seen]
             ELSE IF Truthy(v) THEN [val |-> PyTrue, inv |-> seen]
             ELSE any_(rules, item, i + 1, seen)

\* sum(rule(item) for rule in rules): adds the results as integers, and
\* raises TypeError on the first one that is not a number.
RECURSIVE sum_(_, _, _, _, _)
sum_(rules, item, i, inv, acc) ==
    IF i > Len(rules) THEN [val |-> PyInt(acc), inv |-> inv]
    ELSE LET v == Invoke(rules[i], item)
             seen == Append(inv, i)
         IN  IF Raised(v) \/ ~IsNumber(v) THEN [val |-> TypeError, inv |-> seen]
             ELSE sum_(rules, item, i + 1, seen, acc + v.n)

Predicate_item_passes(self, item) ==
    [val |-> Invoke(self.rules[1], item), inv |-> <<1>>]

\* Variant: only the first two rules are looked at.
PredicateIntersection_first_two(self, item) ==
    all_(SubSeq(self.rules, 1, IF Len(self.rules) < 2 THEN Len(self.rules) ELSE 2),
         item, 1, <<>>)

\* Variant: every rule is invoked before all() looks at the results.
PredicateIntersection_exhaustive(self, item) ==
    [val |-> all_(self.rules, item, 1, <<>>).val,
     inv |-> [i \in 1..Len(self.rules) |-> i]]

PredicateIntersection_item_passes(self, item) ==
    all_(self.rules, item, 1, <<>>)

\* Variant: only the first two rules are looked at.
PredicateUnion_first_two(self, item) ==
    any_(SubSeq(self.rules, 1, IF Len(self.rules) < 2 THEN Len(self.rules) ELSE 2),
         item, 1, <<>>)

PredicateUnion_item_passes(self, item) ==
    any_(self.rules, item, 1, <<>>)

ExclusivePredicateUnion_item_passes(self, item) ==
    LET s == sum_(self.rules, item, 1, <<>>, 0)
    IN  IF Raised(s.val) THEN s
        ELSE [val |-> PyBool(s.val.n = 1), inv |-> s.inv]

\* Variant: rule_b(item) and not rule_a(item)
PredicateDifference_swapped(self, item) ==
    LET b == Invoke(self.rules[2], item)
    IN  IF Raised(b) \/ ~Truthy(b) THEN [val |-> b, inv |-> <<2>>]
        ELSE LET a == Invoke(self.rules[1], item)
             IN  [val |-> IF Raised(a) THEN a ELSE PyNot(a), inv |-> <<2, 1>>]

\* rule_a(item) and not rule_b(item)
PredicateDifference_item_passes(self, item) ==
    LET a == Invoke(self.rules[1], item)
    IN  IF Raised(a) \/ ~Truthy(a) THEN [val |-> a, inv |-> <<1>>]
        ELSE LET b == Invoke(self.rules[2], item)
             IN  [val |-> IF Raised(b) THEN b ELSE PyNot(b), inv |-> <<1, 2>>]

item_passes(self, item) ==
    CASE self.kind = "Predicate" -> Predicate_item_passes(self, item)
      [] self.kind = "PredicateIntersection" ->
            PredicateIntersection_item_passes(self, item)
      [] self.kind = "PredicateUnion" -> PredicateUnion_item_passes(self, item)
      [] self.kind = "ExclusivePredicateUnion" ->
            ExclusivePredicateUnion_item_passes(self, item)
      [] self.kind = "PredicateDifference" ->
            PredicateDifference_item_passes(self, item)

\* Number of nodes of a callable tree.
RECURSIVE Nodes(_)
RECURSIVE NodesFrom(_, _)
NodesFrom(rules, i) ==
    IF i > Len(rules) THEN 0 ELSE Nodes(rules[i]) + NodesFrom(rules, i + 1)
Nodes(c) == 1 + NodesFrom(c.rules, 1)

\* ---------------------------------------------------------------- filtered
\* An iterable is a list of items or the endless count(): 0, 1, 2, ...
List(items) == [kind |-> "list", items |-> items]
Count == [kind |-> "count", items |-> <<>>]

HasNext(it, n) == it.kind = "count" \/ n < Len(it.items)
Element(it, i) == IF it.kind = "list" THEN it.items[i] ELSE i - 1

\* Variant: the iterable is read to its end when the filter is created.
filtered_eager(self, it) ==
    [consumed |-> IF it.kind = "list" THEN Len(it.items) ELSE MaxConsumed,
     out |-> <<>>, fstate |-> "idle"]

\* filter(self, iterable): the filter object as created, with nothing pulled
\* from the iterable yet.
filtered(self, it) == [consumed |-> 0, out |-> <<>>, fstate |-> "idle"]

\* Variant: an element is kept only when self(element) is the value True.
KeepsTrueOnly(self, item) == __call__(self, item).val = PyTrue

\* filter keeps an element when self(element) is truthy.
Keeps(self, item) == Truthy(__call__(self, item).val)

\* ------------------------------------------------------------------- state
VARIABLES
    p,          \* the predicate the program holds
    made,       \* how p was made: the operator used and its operands
    last,       \* the latest call of p: item, value returned, rules invoked
    iterable,   \* the iterable handed to p.filtered
    consumed,   \* number of elements the filter object has pulled from it
    out,        \* the items the filter object has handed to its consumer
    fstate,     \* "none", "idle", "pulling", "raised" or "exhausted"
    requests    \* number of next() calls made on the filter object

fvars == <<iterable, consumed, out, fstate, requests>>
vars == <<p, made, last, iterable, consumed, out, fstate, requests>>

NoCall == [item |-> -1, val |-> PyNone, inv |-> <<>>]
ByConstructor == [op |-> "new", self |-> Function("always_true"),
                  other |-> Function("always_true")]

Rules == {Function(n) : n \in RuleNames}

RuleTuples == UNION {[1..k -> Rules] : k \in 0..MaxRules}

\* The predicates the constructors make from plain rules.
Constructed ==
    {predicate(r) : r \in Rules}
        \cup {PredicateIntersection(rs) : rs \in RuleTuples}
        \cup {PredicateUnion(rs) : rs \in RuleTuples}
        \cup {ExclusivePredicateUnion(rs) : rs \in RuleTuples}
        \cup {PredicateDifference(a, b) : a, b \in Rules}

NoFilter ==
    /\ iterable = List(<<>>)
    /\ consumed = 0
    /\ out = <<>>
    /\ fstate = "none"
    /\ requests = 0

Init ==
    /\ p \in Constructed
    /\ made = ByConstructor
    /\ last = NoCall
    /\ NoFilter

\* The callables an operator can be handed: a plain rule or a predicate.
Operands == Rules \cup {p}

Becomes(q, how) ==
    /\ Nodes(q) <= MaxNodes
    /\ p' = q
    /\ made' = how
    /\ last' = NoCall
    /\ UNCHANGED fvars

And == \E q \in Operands : Becomes(__and__(p, q), [op |-> "&", self |-> p, other |-> q])

Or == \E q \in Operands : Becomes(__or__(p, q), [op |-> "|", self |-> p, other |-> q])

Sub == \E q \in Operands : Becomes(__sub__(p, q), [op |-> "-", self |-> p, other |-> q])

Xor == \E q \in Operands : Becomes(__xor__(p, q), [op |-> "^", self |-> p, other |-> q])

Invert == Becomes(__invert__(p), [op |-> "~", self |-> p, other |-> p])

Call ==
    \E item \in Items :
        LET r == __call__(p, item)
        IN  /\ last' = [item |-> item, val |-> r.val, inv |-> r.inv]
            /\ UNCHANGED <<p, made>>
            /\ UNCHANGED fvars

Next ==
    \/ And
    \/ Or
    \/ Sub
    \/ Xor
    \/ Invert
    \/ Call

Spec == Init /\ [][Next]_vars

\* ------------------------------------------------ the filter object at work
Lists == UNION {[1..k -> Items] : k \in 0..MaxLen}

Filtered ==
    \E it \in {List(s) : s \in Lists} \cup {Count} :
        LET f == filtered(p, it)
        IN  /\ fstate = "none"
            /\ iterable' = it
            /\ consumed' = f.consumed
            /\ out' = f.out
            /\ fstate' = f.fstate
            /\ requests' = 0
            /\ UNCHANGED <<p, made, last>>

\* The consumer asks for the next item.
Request ==
    /\ fstate \in {"idle", "raised"}
    /\ fstate' = "pulling"
    /\ requests' = requests + 1
    /\ UNCHANGED <<p, made, last, iterable, consumed, out>>

\* One turn of the filter object's loop: pull one element and test it.
Pull ==
    /\ fstate = "pulling"
    /\ iterable.kind = "count" => consumed < MaxConsumed
    /\ IF ~HasNext(iterable, consumed)
       THEN /\ fstate' = "exhausted"
            /\ UNCHANGED <<consumed, out>>
       ELSE LET e == Element(iterable, consumed + 1)
            IN  /\ consumed' = consumed + 1
                /\ IF Raised(__call__(p, e).val)
                   THEN fstate' = "raised" /\ out' = out
                   ELSE IF Keeps(p, e)
                   THEN fstate' = "idle" /\ out' = Append(out, e)
                   ELSE fstate' = "pulling" /\ out' = out
    /\ UNCHANGED <<p, made, last, iterable, requests>>

FNext ==
    \/ Filtered
    \/ Request
    \/ Pull

FInit ==
    /\ Init
    /\ Nodes(p) <= MaxFiltering

FSpec == FInit /\ [][FNext]_vars

\* ------------------------------------------------------------------ claims
Called == last # NoCall

\* What each rule of p gives for the item of the latest call.
Results == [i \in 1..Len(p.rules) |-> Invoke(p.rules[i], last.item)]

TrueRules == {i \in DOMAIN Results : Truthy(Results[i])}

\* The least element of a non-empty set of indices.
First(S) == CHOOSE i \in S : \A j \in S : i <= j

UpTo(n) == [i \in 1..n |-> i]

\* C1: ExclusivePredicateUnion(*rules).item_passes(x) is true if and only if
\* exactly one of the rules evaluates true for x.
ExactlyOneRuleTrue ==
    (Called /\ p.kind = "ExclusivePredicateUnion") =>
        (last.val = PyTrue <=> Cardinality(TrueRules) = 1)

\* C1 on rules that answer True, False, 1 or 0 only: the count of true
\* rules decides, not its parity.
ExactlyOneBooleanRuleTrue ==
    (/\ Called
     /\ p.kind = "ExclusivePredicateUnion"
     /\ \A i \in DOMAIN Results : IsNumber(Results[i]) /\ Results[i].n \in {0, 1}) =>
        last.val = PyBool(Cardinality(TrueRules) = 1)

TwoOfThreeRulesTrue ==
    /\ Called
    /\ p.kind = "ExclusivePredicateUnion"
    /\ Len(p.rules) = 3
    /\ \A i \in DOMAIN Results : IsNumber(Results[i]) /\ Results[i].n \in {0, 1}
    /\ Cardinality(TrueRules) = 2
    /\ last.val = PyFalse

OneOfThreeRulesTrue ==
    /\ Called
    /\ p.kind = "ExclusivePredicateUnion"
    /\ Len(p.rules) = 3
    /\ \A i \in DOMAIN Results : IsNumber(Results[i]) /\ Results[i].n \in {0, 1}
    /\ Cardinality(TrueRules) = 1
    /\ last.val = PyTrue

ThreeBooleanRulesAllTrue ==
    /\ Called
    /\ p.kind = "ExclusivePredicateUnion"
    /\ Len(p.rules) = 3
    /\ \A i \in DOMAIN Results : Results[i] = PyTrue
    /\ last.val = PyFalse

\* all(vs) as Python defines it: the first value that is not truthy decides.
PyAll(vs) ==
    LET bad == {i \in DOMAIN vs : ~Truthy(vs[i])}
    IN  IF bad = {} THEN PyTrue
        ELSE IF Raised(vs[First(bad)]) THEN TypeError ELSE PyFalse

\* any(vs) as Python defines it: the first value that is truthy, or an
\* exception met before it, decides.
PyAny(vs) ==
    LET hit == {i \in DOMAIN vs : Truthy(vs[i]) \/ Raised(vs[i])}
    IN  IF hit = {} THEN PyFalse
        ELSE IF Raised(vs[First(hit)]) THEN TypeError ELSE PyTrue

\* C2: PredicateIntersection(*R)(x) equals all(r(x) for r in R): it is true
\* if and only if every rule of R evaluates true for x, for R of any length.
IntersectionIsAll ==
    (Called /\ p.kind = "PredicateIntersection") =>
        /\ last.val = PyAll(Results)
        /\ last.val = PyTrue <=> \A i \in DOMAIN Results : Truthy(Results[i])

IntersectionOfThreeCalled ==
    /\ Called
    /\ p.kind = "PredicateIntersection"
    /\ Len(p.rules) = 3
    /\ Truthy(Results[1]) /\ Truthy(Results[2])
    /\ Results[3] = PyStr(0)
    /\ last.val = PyFalse

\* C3: PredicateUnion(*R)(x) equals any(r(x) for r in R): it is true if and
\* only if at least one rule of R evaluates true for x, for R of any length.
UnionIsAny ==
    (Called /\ p.kind = "PredicateUnion") =>
        /\ last.val = PyAny(Results)
        /\ (last.val = PyTrue /\ \A i \in DOMAIN Results : ~Raised(Results[i]))
              <=> (/\ TrueRules # {}
                   /\ \A i \in DOMAIN Results : ~Raised(Results[i]))

UnionOfThreeCalled ==
    /\ Called
    /\ p.kind = "PredicateUnion"
    /\ Len(p.rules) = 3
    /\ ~Truthy(Results[1]) /\ ~Truthy(Results[2])
    /\ Results[3] = PyInt(1)
    /\ last.val = PyTrue

\* C4: PredicateDifference(a, b).item_passes(x) is true if and only if a(x)
\* is true and b(x) is false.
DifferenceIsAButNotB ==
    (Called /\ p.kind = "PredicateDifference") =>
        (last.val = PyTrue <=>
            /\ Truthy(Results[1])
            /\ ~Truthy(Results[2])
            /\ ~Raised(Results[2]))

DifferenceCalled ==
    /\ Called
    /\ p.kind = "PredicateDifference"
    /\ made.op = "-"
    /\ Results[1] = PyInt(1)
    /\ Results[2] = PyStr(0)
    /\ last.val = PyTrue

\* C5: (~P)(x) equals not P(x), for a plain, composite or already negated P.
InvertIsNot ==
    (Called /\ made.op = "~") =>
        LET v == __call__(made.self, last.item).val
        IN  last.val = IF Raised(v) THEN TypeError ELSE PyNot(v)

IsNegation(q) ==
    /\ q.kind = "PredicateDifference"
    /\ q.rules[1] = Function("always_true")

NegatedTwiceCalled ==
    /\ Called
    /\ made.op = "~"
    /\ IsNegation(made.self)
    /\ __call__(made.self.rules[2], last.item).val = PyInt(2)
    /\ last.val = PyTrue

\* C6: (a & b)(x), (a | b)(x), (a - b)(x) and (a ^ b)(x) equal what the
\* directly constructed PredicateIntersection(a, b), PredicateUnion(a, b),
\* PredicateDifference(a, b) and ExclusivePredicateUnion(a, b) give for x,
\* also when a and b are composites built by these operators.
OperatorsMatchConstructors ==
    Called =>
        LET a == made.self
            b == made.other
            x == last.item
        IN  /\ made.op = "&" =>
                last.val = __call__(PredicateIntersection(<<a, b>>), x).val
            /\ made.op = "|" => last.val = __call__(PredicateUnion(<<a, b>>), x).val
            /\ made.op = "-" => last.val = __call__(PredicateDifference(a, b), x).val
            /\ made.op = "^" =>
                last.val = __call__(ExclusivePredicateUnion(<<a, b>>), x).val

XorOfNestedCalled ==
    /\ Called
    /\ made.op = "^"
    /\ made.self.kind = "PredicateIntersection"
    /\ Len(made.self.rules) = 2
    /\ made.self.rules[1].kind # "function"
    /\ __call__(made.self, last.item).val = PyTrue
    /\ Invoke(made.other, last.item) = PyInt(0)
    /\ last.val = PyTrue

\* C8: item_passes returns the truthiness of the evaluation coerced to a
\* boolean: exactly True or False, and bool() of the rule's result for the
\* base Predicate.
ReturnsBoolean ==
    Called =>
        /\ last.val \in {PyTrue, PyFalse}
        /\ p.kind = "Predicate" => last.val = PyBool(Truthy(Results[1]))

\* C10 as stated: on every call a composite invokes each of its rules once,
\* in order, whatever the earlier rules returned.
EveryRuleInvoked ==
    (Called /\ p.kind # "Predicate") => last.inv = UpTo(Len(p.rules))

\* The first rule whose result ends the evaluation, or the last rule.
Deciding(S) == IF S = {} THEN Len(p.rules) ELSE First(S)

\* C10 as amended: rules are invoked once each in order, up to the rule that
\* decides: the first falsy one for PredicateIntersection, the first truthy
\* one for PredicateUnion, rule_a when falsy for PredicateDifference; only
\* ExclusivePredicateUnion goes through all of its rules, unless one result
\* is not a number.  An exception ends every evaluation.
InvokedUntilDecided ==
    Called =>
        last.inv = UpTo(
            CASE p.kind = "Predicate" -> 1
              [] p.kind = "PredicateIntersection" ->
                    Deciding({i \in DOMAIN Results : ~Truthy(Results[i])})
              [] p.kind = "PredicateUnion" ->
                    Deciding({i \in DOMAIN Results :
                                Truthy(Results[i]) \/ Raised(Results[i])})
              [] p.kind = "ExclusivePredicateUnion" ->
                    Deciding({i \in DOMAIN Results : ~IsNumber(Results[i])})
              [] p.kind = "PredicateDifference" ->
                    IF Truthy(Results[1]) THEN 2 ELSE 1)

IntersectionStoppedEarly ==
    /\ Called
    /\ p.kind = "PredicateIntersection"
    /\ Len(p.rules) = 3
    /\ Results[1] = PyFalse
    /\ Truthy(Results[2])
    /\ last.inv = <<1>>

\* ------------------------------------------------------- claims on filtered
Passes(item) == Truthy(item_passes(p, item).val)

\* The first n elements of the iterable.
Prefix(n) == [i \in 1..n |-> Element(iterable, i)]

\* C7: consuming P.filtered(s) to its end yields exactly the items of s for
\* which P.item_passes is true, as often as they occur in s and in the order
\* of s.
FilteredYieldsPassing ==
    fstate = "exhausted" => out = SelectSeq(iterable.items, Passes)

FilteredListConsumed ==
    /\ fstate = "exhausted"
    /\ Len(iterable.items) = 3
    /\ Len(out) = 2
    /\ out[1] = out[2]
    /\ iterable.items[2] # out[1]
    /\ item_passes(p, out[1]).val = PyInt(2)

\* In each state: creating the filter consumes nothing; every element
\* consumed that passes has been handed out, no more items are handed out
\* than were asked for, and a request ends on the element that passes.
LazyState ==
    /\ requests = 0 => consumed = 0
    /\ out = SelectSeq(Prefix(consumed), Passes)
    /\ Len(out) <= requests
    /\ (fstate = "idle" /\ consumed > 0) => Passes(Element(iterable, consumed))

\* In each step: elements are consumed one at a time, and only while a
\* request is being served.
LazyStep ==
    \/ consumed' = consumed
    \/ consumed' = consumed + 1 /\ fstate = "pulling"

\* C9: filtered is lazy: P.filtered(iterable) consumes no element of the
\* input, and each request for the next output consumes elements one at a
\* time up to and including the first one that passes P, so nothing is
\* read or kept ahead of what the consumer asked for, also on endless input.
FilteredIsLazy == []LazyState /\ [][LazyStep]_vars

EndlessInputHalfConsumed ==
    /\ iterable = Count
    /\ fstate = "idle"
    /\ requests = 2
    /\ out = <<0, 2>>
    /\ consumed = 3
====
